---- MODULE Spec2Model ----
(***************************************************************************)
(* Model of yaml_io (src/src/yaml_io/loader.py): the anchor/alias scanner  *)
(* custom_scan_anchor, the directive extractor _parse_directives and the   *)
(* recursive loader load_imports_exports.                                  *)
(*                                                                         *)
(* Names (anchor names, alias names, export tokens, prefixes) are          *)
(* sequences of one-character strings, so that prefixing, splitting and    *)
(* scanning are computed character by character as the code does.          *)
(***************************************************************************)
EXTENDS Integers, Sequences, FiniteSets, TLC

(***************************************************************************)
(* Bounds                                                                  *)
(***************************************************************************)
\* longest character stream handed to the scanner after the marker
MaxLen == 4
\* most import directives in one file
MaxImports == 2
\* most export tokens in one file
MaxExports == 2
\* deepest nesting of calls the model follows; more than there are files, so
\* that a load which enters no file twice never gets there
MaxDepth == 5
\* most top-level loads made one after the other
MaxLoads == 3
\* most characters of a directive line after its keyword
MaxLineLen == 7
\* most lines of a text of several lines
MaxLines == 3

(***************************************************************************)
(* Characters                                                              *)
(***************************************************************************)
\* what Scanner.peek() returns at the end of the stream
EOF == "\\0"

\* the input alphabet of the scanner model: two alphanumerics, underscore,
\* dash, the separator, two terminators and one other punctuation character
Chars == {"a", "1", "_", "-", ".", " ", ",", "!"}

\* the markers the scanner may be called on ('!' stands for any other one)
Markers == {"&", "*", "!"}

\* terminators = ' \t\r\n,[]{}'  (loader.py:26)
terminators == {" ", "\t", "\r", "\n", ",", "[", "]", "{", "}"}

\* str.isalnum() on one character of the alphabet
isalnum(ch) == ch \in {"a", "b", "c", "d", "h", "i", "l", "p", "q", "x", "y", "1", "2"}

\* Scanner.peek(): the character at index i (1-based), EOF past the end
peek(s, i) == IF i <= Len(s) THEN s[i] ELSE EOF

\* the number of separator characters in a name: str.count('.')
RECURSIVE count(_, _)
count(s, ch) ==
    IF s = <<>> THEN 0
    ELSE (IF s[1] = ch THEN 1 ELSE 0) + count(Tail(s), ch)

startswith(s, ch) == Len(s) > 0 /\ s[1] = ch
endswith(s, ch) == Len(s) > 0 /\ s[Len(s)] = ch

(***************************************************************************)
(* custom_scan_anchor (loader.py:8-82)                                     *)
(* A scan result is [err, name, pos]: err is "" for a returned token, and  *)
(* pos is the index of the first character the scanner did not consume.    *)
(***************************************************************************)
Token(name, pos) == [err |-> "", name |-> name, pos |-> pos]
ScannerError(msg, pos) == [err |-> msg, name |-> <<>>, pos |-> pos]

\* a scanner that takes the separator as one more name character
RECURSIVE scan_anchor_loop_period(_, _, _)
scan_anchor_loop_period(s, i, anchor_chars) ==
    LET ch == peek(s, i) IN
    IF ch \in terminators THEN Token(anchor_chars, i)
    ELSE IF isalnum(ch) \/ ch \in {"_", "-", "."}
         THEN scan_anchor_loop_period(s, i + 1, Append(anchor_chars, ch))
    ELSE Token(anchor_chars, i)

\* the while loop of the '&' branch (loader.py:35-47)
RECURSIVE scan_anchor_loop(_, _, _)
scan_anchor_loop(s, i, anchor_chars) ==
    LET ch == peek(s, i) IN
    IF ch \in terminators THEN Token(anchor_chars, i)
    ELSE IF ch = "." THEN ScannerError("period not allowed in anchor names", i)
    ELSE IF isalnum(ch) \/ ch \in {"_", "-"}
         THEN scan_anchor_loop(s, i + 1, Append(anchor_chars, ch))
    ELSE Token(anchor_chars, i)

\* an alias scan without the format check on the collected name
RECURSIVE scan_alias_loop_unchecked(_, _, _, _)
scan_alias_loop_unchecked(s, i, alias_chars, dot_seen) ==
    LET ch == peek(s, i) IN
    IF ch \in terminators THEN Token(alias_chars, i)
    ELSE IF ch = "."
         THEN IF dot_seen THEN Token(alias_chars, i)
              ELSE scan_alias_loop_unchecked(s, i + 1, Append(alias_chars, ch), TRUE)
    ELSE IF isalnum(ch) \/ ch = "_"
         THEN scan_alias_loop_unchecked(s, i + 1, Append(alias_chars, ch), dot_seen)
    ELSE Token(alias_chars, i)

\* the while loop of the '*' branch followed by the format check
\* (loader.py:59-82)
RECURSIVE scan_alias_loop(_, _, _, _)
scan_alias_loop(s, i, alias_chars, dot_seen) ==
    LET ch == peek(s, i)
        finish ==
            IF dot_seen /\ (startswith(alias_chars, ".") \/ endswith(alias_chars, ".")
                            \/ count(alias_chars, ".") # 1)
            THEN ScannerError("invalid alias format with period", i)
            ELSE Token(alias_chars, i)
    IN
    IF ch \in terminators THEN finish
    ELSE IF ch = "."
         THEN IF dot_seen THEN finish
              ELSE scan_alias_loop(s, i + 1, Append(alias_chars, ch), TRUE)
    ELSE IF isalnum(ch) \/ ch = "_"
         THEN scan_alias_loop(s, i + 1, Append(alias_chars, ch), dot_seen)
    ELSE finish

\* custom_scan_anchor(self, TokenClass): marker is the character under the
\* cursor, s the stream after it
custom_scan_anchor(marker, s) ==
    IF marker \notin {"&", "*"}
    THEN ScannerError("expected '&' or '*'", 0)
    ELSE IF ~(isalnum(peek(s, 1)) \/ peek(s, 1) = "_")
    THEN ScannerError("expected alphabetic or numeric character", 1)
    ELSE IF marker = "&" THEN scan_anchor_loop(s, 1, <<>>)
    ELSE scan_alias_loop(s, 1, <<>>, FALSE)

(***************************************************************************)
(* Names, maps and values                                                  *)
(***************************************************************************)
\* f"{prefix}.{anchor}" (loader.py:165, 192)
prefixed(prefix, anchor) == prefix \o <<".">> \o anchor

\* str.find('.'): the index of the first separator, 0 when there is none
RECURSIVE find(_, _, _)
find(s, ch, i) ==
    IF i > Len(s) THEN 0
    ELSE IF s[i] = ch THEN i
    ELSE find(s, ch, i + 1)

\* exp.split('.', 1) for an exp that contains the separator (loader.py:191)
split1(exp) ==
    LET k == find(exp, ".", 1) IN
    [prefix |-> SubSeq(exp, 1, k - 1), anchor_name |-> SubSeq(exp, k + 1, Len(exp))]

\* a dict is a function from its keys
EmptyDict == [k \in {} |-> <<>>]
\* d[k] = v
SetItem(d, k, v) == [n \in DOMAIN d \cup {k} |-> IF n = k THEN v ELSE d[n]]
\* d.update(e)
update(d, e) == [n \in DOMAIN d \cup DOMAIN e |-> IF n \in DOMAIN e THEN e[n] ELSE d[n]]

\* the scalars and collections a YAML line of the model may hold
Literals == {"1", "2", "[1]"}
\* literals whose Python object is shared by every construction of it
\* (small integers); a list is a new object each time it is constructed
Shared == {"1", "2"}

\* the Python object the engine constructs for literal lit on line j of the
\* parse numbered pid: v is its value and id its identity, so that
\* 'a is b' is a = b and 'a == b' is a.v = b.v
Construct(lit, pid, j) ==
    [v |-> lit, id |-> IF lit \in Shared THEN <<0, 0>> ELSE <<pid, j>>]

(***************************************************************************)
(* Files.  A text is a sequence of lines; a line is a record:              *)
(*   [kind |-> "import", path, prefix]     #!import <path> as <prefix>     *)
(*   [kind |-> "export", tokens]           #!export <t1>, <t2>, ...        *)
(*   [kind |-> "def", name, lit]           k: &<name> <lit>                *)
(*   [kind |-> "alias", name]              k: *<name>                      *)
(*   [kind |-> "plain", lit]               k: <lit>                        *)
(***************************************************************************)
ImportLine(path, prefix) == [kind |-> "import", path |-> path, prefix |-> prefix]
ExportLine(tokens) == [kind |-> "export", tokens |-> tokens]
DefLine(name, lit) == [kind |-> "def", name |-> name, lit |-> lit]
AliasLine(name) == [kind |-> "alias", name |-> name]
PlainLine(lit) == [kind |-> "plain", lit |-> lit]

\* the concatenation of a sequence of sequences: list.extend in a loop
RECURSIVE Flatten(_)
Flatten(ss) == IF ss = <<>> THEN <<>> ELSE Head(ss) \o Flatten(Tail(ss))

IsImport(line) == line.kind = "import"
IsExport(line) == line.kind = "export"
IsYaml(line) == line.kind \notin {"import", "export"}

\* an extractor that loses the last line that is not a directive
_parse_directives_droplast(content) ==
    LET import_lines == SelectSeq(content, IsImport)
        export_lines == SelectSeq(content, IsExport)
        kept == SelectSeq(content, IsYaml)
    IN [content |-> SubSeq(kept, 1, Len(kept) - 1),
        import_directives |->
            [k \in 1..Len(import_lines) |->
                [path |-> import_lines[k].path, prefix |-> import_lines[k].prefix]],
        explicit_exports |->
            Flatten([k \in 1..Len(export_lines) |-> export_lines[k].tokens])]

\* _parse_directives(content) (loader.py:93-126)
_parse_directives(content) ==
    LET import_lines == SelectSeq(content, IsImport)
        export_lines == SelectSeq(content, IsExport)
    IN [content |-> SelectSeq(content, IsYaml),
        import_directives |->
            [k \in 1..Len(import_lines) |->
                [path |-> import_lines[k].path, prefix |-> import_lines[k].prefix]],
        explicit_exports |->
            Flatten([k \in 1..Len(export_lines) |-> export_lines[k].tokens])]

(***************************************************************************)
(* The document engine (yaml.SafeLoader behind ImportExportYAMLLoader):    *)
(* a single-document parse and construct of the clean text, with the       *)
(* anchor table pre-seeded, returning the data and the anchor table after  *)
(* the parse (seeded and locally defined anchors together).                *)
(* The engine is an external library.  It is modelled by what the loader   *)
(* relies on (loader.py:173-182): anchors seeded before the parse resolve  *)
(* the aliases of the text, and the anchor table read after the parse      *)
(* holds the seeded and the locally defined anchors, bound to constructed  *)
(* values.  The text reaches the engine line by line; the anchor and alias *)
(* names in it go through custom_scan_anchor.                              *)
(***************************************************************************)
EngineOk(data, anchors) == [err |-> "", data |-> data, anchors |-> anchors]
EngineError(e) == [err |-> e, data |-> <<>>, anchors |-> EmptyDict]

RECURSIVE compose(_, _, _, _, _)
compose(lines, j, anchors, data, pid) ==
    IF j > Len(lines) THEN EngineOk(data, anchors)
    ELSE LET line == lines[j] IN
    IF line.kind = "plain"
    THEN compose(lines, j + 1, anchors, Append(data, Construct(line.lit, pid, j)), pid)
    ELSE LET tok == custom_scan_anchor(IF line.kind = "def" THEN "&" ELSE "*",
                                       line.name \o <<" ">>)
         IN
         IF tok.err # "" THEN EngineError("ScannerError")
         ELSE IF tok.pos <= Len(line.name) THEN EngineError("ParserError")
         ELSE IF line.kind = "def"
         THEN LET obj == Construct(line.lit, pid, j) IN
              compose(lines, j + 1, SetItem(anchors, tok.name, obj), Append(data, obj), pid)
         ELSE IF tok.name \notin DOMAIN anchors THEN EngineError("ComposerError")
         ELSE compose(lines, j + 1, anchors, Append(data, anchors[tok.name]), pid)

\* loader.get_single_data() on a loader whose anchors are seeded with seed
get_single_data(content, seed, pid) == compose(content, 1, seed, <<>>, pid)

(***************************************************************************)
(* load_imports_exports: the part after the import loop (loader.py:172-201)*)
(***************************************************************************)
\* a partition that takes every anchor of the parse for a local one
local_anchors_all(anchors, imported_anchors) == anchors

\* local_anchors (loader.py:182)
local_anchors(anchors, imported_anchors) ==
    [k \in DOMAIN anchors \ DOMAIN imported_anchors |-> anchors[k]]

\* the object None
None == [v |-> "None", id |-> <<0, 0>>]

\* a round that binds the name of a missing anchor to None instead of
\* skipping it
export_one_none(exported_anchors, exp, anchors) ==
    IF find(exp, ".", 1) > 0
    THEN SetItem(exported_anchors, split1(exp).anchor_name,
                 IF exp \in DOMAIN anchors THEN anchors[exp] ELSE None)
    ELSE SetItem(exported_anchors, exp,
                 IF exp \in DOMAIN anchors THEN anchors[exp] ELSE None)

\* one round of the loop over explicit_exports (loader.py:190-199)
export_one(exported_anchors, exp, anchors) ==
    IF find(exp, ".", 1) > 0
    THEN LET prefix == split1(exp).prefix
             anchor_name == split1(exp).anchor_name
             full_anchor == prefixed(prefix, anchor_name)
         IN IF full_anchor \in DOMAIN anchors
            THEN SetItem(exported_anchors, anchor_name, anchors[full_anchor])
            ELSE exported_anchors
    ELSE IF exp \in DOMAIN anchors
         THEN SetItem(exported_anchors, exp, anchors[exp])
         ELSE exported_anchors

\* a loop that applies the export tokens last to first
RECURSIVE export_loop_reversed(_, _, _, _)
export_loop_reversed(exported_anchors, explicit_exports, k, anchors) ==
    IF k > Len(explicit_exports) THEN exported_anchors
    ELSE export_one(export_loop_reversed(exported_anchors, explicit_exports, k + 1, anchors),
                    explicit_exports[k], anchors)

\* the loop over explicit_exports from token k on (loader.py:189-199)
RECURSIVE export_loop(_, _, _, _)
export_loop(exported_anchors, explicit_exports, k, anchors) ==
    IF k > Len(explicit_exports) THEN exported_anchors
    ELSE export_loop(export_one(exported_anchors, explicit_exports[k], anchors),
                     explicit_exports, k + 1, anchors)

\* an export table that keeps a re-exported anchor under its prefixed name
exported_of_prefixed(anchors, imported_anchors, explicit_exports) ==
    LET named == {explicit_exports[k] : k \in 1..Len(explicit_exports)} \cap DOMAIN anchors
    IN update(local_anchors(anchors, imported_anchors), [k \in named |-> anchors[k]])

\* an export table built from the export tokens alone
exported_of_tokens_only(anchors, imported_anchors, explicit_exports) ==
    export_loop(EmptyDict, explicit_exports, 1, anchors)

\* exported_anchors as returned (loader.py:184-201)
exported_of(anchors, imported_anchors, explicit_exports) ==
    export_loop(update(EmptyDict, local_anchors(anchors, imported_anchors)),
                explicit_exports, 1, anchors)

(***************************************************************************)
(* load_imports_exports: merging one import's exports (loader.py:164-170)  *)
(***************************************************************************)
\* some prefixed anchor is already bound to another object (loader.py:166)
collides(imported_anchors, prefix, exported) ==
    \E anchor \in DOMAIN exported :
        /\ prefixed(prefix, anchor) \in DOMAIN imported_anchors
        /\ imported_anchors[prefixed(prefix, anchor)] # exported[anchor]

\* a merge that keeps the exported names as they are, without the prefix
merged_unprefixed(imported_anchors, prefix, exported) ==
    update(imported_anchors, exported)

\* imported_anchors after the loop over exported.items() (loader.py:164-170)
merged(imported_anchors, prefix, exported) ==
    update(imported_anchors,
           [k \in {prefixed(prefix, anchor) : anchor \in DOMAIN exported} |->
               exported[SubSeq(k, Len(prefix) + 2, Len(k))]])

(***************************************************************************)
(* State                                                                   *)
(***************************************************************************)
VARIABLES
    scanIn,     \* the scanner's input: [marker, text]
    scanOut,    \* the scanner's result, or NoScan before the call
    family,     \* which universe of file systems the files are drawn from
    fs,         \* the file system: the text of every file read so far
    processed_files,  \* the set shared by the calls of one top-level load
    stack,      \* the active calls of load_imports_exports, outermost first
    nparse,     \* the number of engine parses started so far
    done,       \* per file, what its last call that returned computed
    result,     \* the outcome of the top-level call
    history,    \* the outcomes of the earlier top-level calls, oldest first
    dirIn,      \* the text _parse_directives is called on
    dirOut      \* what _parse_directives returned, or NoParse before the call

vars == <<scanIn, scanOut, family, fs, processed_files, stack, nparse, done, result,
          history, dirIn, dirOut>>
scanVars == <<scanIn, scanOut>>
dirVars == <<dirIn, dirOut>>
loadVars == <<family, fs, processed_files, stack, nparse, done, result, history>>

NoScan == [err |-> "not scanned", name |-> <<>>, pos |-> 0]
NoParse == [content |-> <<"not parsed">>, import_directives |-> <<>>, explicit_exports |-> <<>>]

(***************************************************************************)
(* The universes the inputs are drawn from                                 *)
(***************************************************************************)
\* all sequences over S of length at most n
RECURSIVE SeqsUpTo(_, _)
SeqsUpTo(S, n) ==
    IF n = 0 THEN {<<>>}
    ELSE LET shorter == SeqsUpTo(S, n - 1) IN
         shorter \cup {Append(s, e) : s \in {t \in shorter : Len(t) = n - 1}, e \in S}

\* all character streams of length at most n
Streams(n) == SeqsUpTo(Chars, n)

Files == {"A", "B", "C", "D"}
Roots == {"A"}
Unread == <<[kind |-> "unread"]>>

X == <<"x">>
P == <<"p">>
Q == <<"q">>
Prefixes == {P, Q}

\* export tokens: a bare name, two prefixed names, and one with two separators
Tokens == {X, prefixed(P, X), prefixed(Q, X), prefixed(P, prefixed(X, X))}

\* "graph" universe: any import graph over Files with at most MaxImports
\* imports per file, listed in the order of the file names, the k-th import
\* of a file under prefix p (k odd) or q (k even); every file defines the
\* anchor x
FileOrder(f) == CASE f = "A" -> 1 [] f = "B" -> 2 [] f = "C" -> 3 [] OTHER -> 4
PrefixAt(k) == IF k % 2 = 1 THEN P ELSE Q
GraphTexts ==
    {[k \in 1..Len(ts) |-> ImportLine(ts[k], PrefixAt(k))] \o <<DefLine(X, "1")>> :
        ts \in {t \in SeqsUpTo(Files, MaxImports) :
                  \A k \in 1..(Len(t) - 1) : FileOrder(t[k]) <= FileOrder(t[k + 1])}}

\* "names" universe: A imports B first (under p) and then B or C under p or
\* q, B may import C under p, C imports nothing; the files vary in the
\* anchor x they define, the alias they use and their export tokens, and A
\* has one line without anchor or alias
OptDef(lits) == {<<>>} \cup {<<DefLine(X, lit)>> : lit \in lits}
OptExport(tokenSeqs) == {IF ts = <<>> THEN <<>> ELSE <<ExportLine(ts)>> : ts \in tokenSeqs}
ImportsOfA ==
    {<<>>} \cup
    {[k \in 1..Len(s) |-> ImportLine(s[k][1], s[k][2])] :
        s \in {t \in SeqsUpTo({"B", "C"} \X Prefixes, MaxImports) :
                  Len(t) >= 1 /\ t[1] = <<"B", P>>}}
NamesTexts(f) ==
    CASE f = "A" ->
            {i \o <<PlainLine("2")>> \o d \o a \o e :
                i \in ImportsOfA, d \in OptDef({"1"}),
                a \in {<<>>, <<AliasLine(prefixed(P, X))>>},
                e \in OptExport(SeqsUpTo(Tokens, MaxExports))}
      [] f = "B" ->
            {i \o d \o e :
                i \in {<<>>, <<ImportLine("C", P)>>}, d \in OptDef({"1", "[1]"}),
                e \in OptExport({<<>>, <<prefixed(P, X)>>})}
      [] f = "C" -> OptDef(Literals) \cup {<<DefLine(prefixed(P, X), "1")>>}
      [] OTHER -> {}

Families == {"graph", "names"}
Texts(fam, f) == IF fam = "graph" THEN GraphTexts ELSE NamesTexts(f)

(***************************************************************************)
(* load_imports_exports as a machine of calls                              *)
(***************************************************************************)
\* os.path.abspath and os.path.join(os.path.dirname(file_path), path): every
\* file of the model lies in one directory and is named by its normal form
abspath(file_path) == file_path
import_path(file_path, path) == path

NotDone ==
    [returned |-> FALSE, imported_anchors |-> EmptyDict, anchors |-> EmptyDict,
     explicit_exports |-> <<>>, exported |-> EmptyDict, data |-> <<>>]

\* the top-level call: the file it was made on and how it stands
Idle ==
    [status |-> "idle", file_path |-> "", error |-> "", data |-> <<>>,
     exported |-> EmptyDict]
Running(root) == [Idle EXCEPT !.status = "running", !.file_path = root]
Returned(root, data, exported) ==
    [status |-> "returned", file_path |-> root, error |-> "", data |-> data,
     exported |-> exported]
Raised(root, e) == [Running(root) EXCEPT !.status = "raised", !.error = e]

Init ==
    /\ scanIn = [marker |-> "&", text |-> <<>>]
    /\ scanOut = NoScan
    /\ family \in Families
    /\ fs = [f \in Files |-> Unread]
    /\ processed_files = {}
    /\ stack = <<>>
    /\ nparse = 0
    /\ done = [f \in Files |-> NotDone]
    /\ result = Idle
    /\ history = <<>>
    /\ dirIn = <<>>
    /\ dirOut = NoParse

\* an exception leaves load_imports_exports: nothing catches it, so every
\* active call is abandoned and the top-level call raises it
Raise(root, e) ==
    /\ stack' = <<>>
    /\ result' = Raised(root, e)

\* a call that does not record its path
added_nothing(processed, abs_path) == processed

\* the call set with path added (loader.py:149)
added(processed, abs_path) == processed \cup {abs_path}

\* the start of a call, up to the import loop (loader.py:144-158); stk is
\* the stack of the callers, processed the set the call is handed and root
\* the file of the top-level call
Enter(file_path, stk, processed, root) ==
    LET abs_path == abspath(file_path) IN
    IF abs_path \in processed
    THEN /\ Raise(root, "CircularImport")
         /\ UNCHANGED <<fs, processed_files>>
    ELSE \E text \in (IF fs[file_path] = Unread
                      THEN Texts(family, file_path) ELSE {fs[file_path]}) :
            LET parsed == _parse_directives(text) IN
            /\ fs' = [fs EXCEPT ![file_path] = text]
            /\ processed_files' = added(processed, abs_path)
            /\ stack' = Append(stk,
                    [file_path |-> file_path,
                     content |-> parsed.content,
                     import_directives |-> parsed.import_directives,
                     explicit_exports |-> parsed.explicit_exports,
                     i |-> 1,
                     imported_anchors |-> EmptyDict])
            /\ result' = Running(root)

\* a default argument that is one set, kept from call to call
shared_processed(leftover) == leftover

\* processed_files of a call made without one: a new empty set, whatever the
\* set of the load before holds (loader.py:129, 144-145)
fresh_processed(leftover) == {}

\* load_imports_exports(file_path) called with no processed_files
TopLevelCall(file_path) ==
    /\ result.status = "idle"
    /\ Enter(file_path, <<>>, fresh_processed(processed_files), file_path)
    /\ UNCHANGED <<nparse, done, family, scanVars, dirVars, history>>

\* load_imports_exports(file_path) called with no processed_files once the
\* top-level call before it has returned or raised
LaterTopLevelCall(file_path) ==
    /\ result.status \in {"returned", "raised"}
    /\ Len(history) + 1 < MaxLoads
    /\ history' = Append(history, result)
    /\ Enter(file_path, <<>>, fresh_processed(processed_files), file_path)
    /\ done' = [f \in Files |-> NotDone]
    /\ UNCHANGED <<nparse, family, scanVars, dirVars>>

Top == stack[Len(stack)]

\* the recursive call for the next import directive (loader.py:159-162)
ImportCall ==
    /\ stack # <<>>
    /\ Len(stack) < MaxDepth
    /\ Top.i <= Len(Top.import_directives)
    /\ Enter(import_path(Top.file_path, Top.import_directives[Top.i].path),
             stack, processed_files, result.file_path)
    /\ UNCHANGED <<nparse, done, family, scanVars, dirVars, history>>

\* what the set holds once a call has returned (loader.py:201)
after_return(processed, abs_path) == processed

\* the rest of a call whose import loop is over (loader.py:172-201), its
\* return, and the caller's merge of the returned exports (loader.py:162-170)
Complete ==
    /\ stack # <<>>
    /\ Top.i > Len(Top.import_directives)
    /\ LET frame == Top
           loaded == get_single_data(frame.content, frame.imported_anchors, nparse + 1)
           exported == exported_of(loaded.anchors, frame.imported_anchors,
                                   frame.explicit_exports)
           callers == SubSeq(stack, 1, Len(stack) - 1)
       IN
       /\ nparse' = nparse + 1
       /\ IF loaded.err # ""
          THEN /\ Raise(result.file_path, loaded.err)
               /\ UNCHANGED <<done, processed_files>>
          ELSE /\ done' = [done EXCEPT ![frame.file_path] =
                     [returned |-> TRUE,
                      imported_anchors |-> frame.imported_anchors,
                      anchors |-> loaded.anchors,
                      explicit_exports |-> frame.explicit_exports,
                      exported |-> exported,
                      data |-> loaded.data]]
               /\ processed_files' = after_return(processed_files, abspath(frame.file_path))
               /\ IF callers = <<>>
                  THEN /\ stack' = <<>>
                       /\ result' = Returned(result.file_path, loaded.data, exported)
                  ELSE LET caller == callers[Len(callers)]
                           prefix == caller.import_directives[caller.i].prefix
                       IN
                       IF collides(caller.imported_anchors, prefix, exported)
                       THEN Raise(result.file_path, "AnchorCollision")
                       ELSE /\ stack' = [callers EXCEPT ![Len(callers)] =
                                   [caller EXCEPT
                                       !.i = caller.i + 1,
                                       !.imported_anchors =
                                           merged(caller.imported_anchors, prefix, exported)]]
                            /\ UNCHANGED result
    /\ UNCHANGED <<fs, family, scanVars, dirVars, history>>

Next ==
    \/ \E file_path \in Roots : TopLevelCall(file_path)
    \/ ImportCall
    \/ Complete

Spec == Init /\ [][Next]_vars

\* the loads of the "graph" universe; the interpreter runs the one thread of
\* a load without pause: whenever a step of the load is possible, one is taken
InitGraph == Init /\ family = "graph"
FairGraphSpec == InitGraph /\ [][Next]_vars /\ WF_vars(Next)

\* top-level loads made one after the other, in one process, on a file system
\* that does not change; the files are known from the start
LoadRoots == {"A", "B", "C"}
LoadFileSystems ==
    {[f \in Files |-> CASE f = "A" -> a [] f = "B" -> b [] f = "C" -> c
                          [] OTHER -> <<DefLine(X, "1")>>] :
        a \in {<<DefLine(X, "1")>>,
               <<ImportLine("A", P), DefLine(X, "1")>>,
               <<ImportLine("B", P), DefLine(X, "1")>>,
               <<ImportLine("B", P), ImportLine("C", P), DefLine(X, "1")>>,
               <<ImportLine("B", P), ImportLine("C", Q), AliasLine(prefixed(Q, X))>>},
        b \in {<<DefLine(X, "1")>>,
               <<DefLine(X, "[1]")>>,
               <<ImportLine("A", P), DefLine(X, "1")>>,
               <<ImportLine("C", P), DefLine(X, "1"), ExportLine(<<prefixed(P, X)>>)>>},
        c \in {<<DefLine(X, "1")>>,
               <<DefLine(X, "[1]")>>,
               <<ImportLine("B", P), DefLine(X, "1")>>,
               <<AliasLine(prefixed(P, X))>>}}

InitLoads ==
    /\ scanIn = [marker |-> "&", text |-> <<>>]
    /\ scanOut = NoScan
    /\ family = "graph"
    /\ fs \in LoadFileSystems
    /\ processed_files = {}
    /\ stack = <<>>
    /\ nparse = 0
    /\ done = [f \in Files |-> NotDone]
    /\ result = Idle
    /\ history = <<>>
    /\ dirIn = <<>>
    /\ dirOut = NoParse

NextLoads ==
    \/ \E file_path \in LoadRoots : TopLevelCall(file_path)
    \/ \E file_path \in LoadRoots : LaterTopLevelCall(file_path)
    \/ ImportCall
    \/ Complete

SpecLoads == InitLoads /\ [][NextLoads]_vars

(***************************************************************************)
(* The scanner applied to one bounded input                                *)
(***************************************************************************)
InitScan ==
    /\ scanIn \in [marker : Markers, text : Streams(MaxLen)]
    /\ scanOut = NoScan
    /\ family = "graph"
    /\ fs = [f \in Files |-> Unread]
    /\ processed_files = {}
    /\ stack = <<>>
    /\ nparse = 0
    /\ done = [f \in Files |-> NotDone]
    /\ result = Idle
    /\ history = <<>>
    /\ dirIn = <<>>
    /\ dirOut = NoParse

Scan ==
    /\ scanOut = NoScan
    /\ scanOut' = custom_scan_anchor(scanIn.marker, scanIn.text)
    /\ UNCHANGED <<scanIn, loadVars, dirVars>>

NextScan == Scan

SpecScan == InitScan /\ [][NextScan]_vars

(***************************************************************************)
(* _parse_directives on a text of characters (loader.py:93-126).  A text   *)
(* is a sequence of characters; the words "#!import" and "#!export" are    *)
(* one character each of the alphabet of the texts.                        *)
(***************************************************************************)
KwImport == "#!import"
KwExport == "#!export"
NL == "\n"

\* the characters \s and \w match, among those of the texts
SpaceChars == {" ", "\t"}
WordChars == {"a", "s", "_"}

\* the number of characters of class that follow one another from index q on:
\* what a greedy \s+ or \w+ takes at q
RECURSIVE run(_, _, _)
run(line, q, class) ==
    IF q > Len(line) \/ line[q] \notin class THEN 0
    ELSE 1 + run(line, q + 1, class)

\* content.splitlines() (loader.py:106)
RECURSIVE splitlines(_)
splitlines(content) ==
    IF content = <<>> THEN <<>>
    ELSE LET k == find(content, NL, 1) IN
         IF k = 0 THEN <<content>>
         ELSE <<SubSeq(content, 1, k - 1)>>
                  \o splitlines(SubSeq(content, k + 1, Len(content)))

\* "\n".join(processed_lines) (loader.py:126)
RECURSIVE join(_)
join(lines) ==
    IF lines = <<>> THEN <<>>
    ELSE IF Len(lines) = 1 THEN lines[1]
    ELSE lines[1] \o <<NL>> \o join(Tail(lines))

\* str.strip()
RECURSIVE lstrip(_)
lstrip(s) == IF s # <<>> /\ s[1] \in SpaceChars THEN lstrip(Tail(s)) ELSE s
RECURSIVE rstrip(_)
rstrip(s) ==
    IF s # <<>> /\ s[Len(s)] \in SpaceChars THEN rstrip(SubSeq(s, 1, Len(s) - 1)) ELSE s
strip(s) == rstrip(lstrip(s))

\* str.split(sep) (loader.py:122)
RECURSIVE split(_, _)
split(s, sep) ==
    LET k == find(s, sep, 1) IN
    IF k = 0 THEN <<s>>
    ELSE <<SubSeq(s, 1, k - 1)>> \o split(SubSeq(s, k + 1, Len(s)), sep)

\* the result of re.match: whether the pattern matched, and its groups
NoMatch == [ok |-> FALSE, g1 |-> <<>>, g2 |-> <<>>]

\* the tail \s+as\s+(\w+) of import_re tried at index q: each greedy run
\* takes all it can, and giving a character back never helps the next item
as_clause(line, q) ==
    LET w == run(line, q, SpaceChars)
        a == q + w
        w2 == run(line, a + 2, SpaceChars)
        id == run(line, a + 2 + w2, WordChars)
    IN IF w >= 1 /\ a + 1 <= Len(line) /\ line[a] = "a" /\ line[a + 1] = "s"
          /\ w2 >= 1 /\ id >= 1
       THEN [ok |-> TRUE, g1 |-> <<>>, g2 |-> SubSeq(line, a + 2 + w2, a + 1 + w2 + id)]
       ELSE NoMatch

\* import_re.match(line), import_re = ^#!import\s+(.+?)\s+as\s+(\w+)
\* (loader.py:110, 113): the first \s+ is tried longest first, the lazy
\* group shortest first, and the first try whose tail matches is the match
import_re_match(line) ==
    IF line = <<>> \/ line[1] # KwImport THEN NoMatch
    ELSE LET tries == {t \in (1..run(line, 2, SpaceChars)) \X (1..Len(line)) :
                          /\ 1 + t[1] + t[2] <= Len(line)
                          /\ NL \notin {line[k] : k \in (2 + t[1])..(1 + t[1] + t[2])}
                          /\ as_clause(line, 2 + t[1] + t[2]).ok}
         IN IF tries = {} THEN NoMatch
            ELSE LET t == CHOOSE c \in tries : \A d \in tries :
                              c[1] > d[1] \/ (c[1] = d[1] /\ c[2] <= d[2])
                 IN [ok |-> TRUE,
                     g1 |-> SubSeq(line, 2 + t[1], 1 + t[1] + t[2]),
                     g2 |-> as_clause(line, 2 + t[1] + t[2]).g2]

\* export_re.match(line), export_re = ^#!export\s+(.+) (loader.py:111, 119):
\* \s+ takes the whole run and gives its last character back to the group
\* when nothing follows the run
export_re_match(line) ==
    IF line = <<>> \/ line[1] # KwExport THEN NoMatch
    ELSE LET w == run(line, 2, SpaceChars) IN
         IF w >= 1 /\ 2 + w <= Len(line)
         THEN [ok |-> TRUE, g1 |-> SubSeq(line, 2 + w, Len(line)), g2 |-> <<>>]
         ELSE IF w >= 2
         THEN [ok |-> TRUE, g1 |-> SubSeq(line, Len(line), Len(line)), g2 |-> <<>>]
         ELSE NoMatch

\* the loop over the lines (loader.py:112-126), line j next
RECURSIVE parse_lines(_, _, _, _, _)
parse_lines(lines, j, processed_lines, import_directives, export_directives) ==
    IF j > Len(lines)
    THEN [content |-> join(processed_lines),
          import_directives |-> import_directives,
          explicit_exports |-> export_directives]
    ELSE LET line == lines[j]
             import_match == import_re_match(line)
             export_match == export_re_match(line)
         IN
         IF import_match.ok
         THEN parse_lines(lines, j + 1, processed_lines,
                  Append(import_directives,
                         [path |-> strip(import_match.g1), prefix |-> strip(import_match.g2)]),
                  export_directives)
         ELSE IF export_match.ok
         THEN LET anchors_str == strip(export_match.g1)
                  entries == split(anchors_str, ",")
                  anchors == [k \in 1..Len(entries) |-> strip(entries[k])]
              IN parse_lines(lines, j + 1, processed_lines, import_directives,
                             export_directives \o anchors)
         ELSE parse_lines(lines, j + 1, Append(processed_lines, line),
                          import_directives, export_directives)

\* _parse_directives(content) on a text of characters (loader.py:93-126)
parse_directives_text(content) == parse_lines(splitlines(content), 1, <<>>, <<>>, <<>>)

\* the texts _parse_directives is applied to: every line that starts with a
\* directive keyword and goes on with at most MaxLineLen characters, and the
\* texts of at most MaxLines lines taken from a few, the last one with or
\* without its line end
ImportBodies == SeqsUpTo({" ", "a", "s", "."}, MaxLineLen)
ExportBodies == SeqsUpTo({" ", "a", ","}, MaxLineLen)
SampleLines ==
    {<<>>,
     <<"a">>,
     <<KwImport, " ", "a", " ", "a", "s", " ", "a">>,
     <<KwExport, " ", "a", ",", " ", "a">>,
     <<" ", KwExport, " ", "a">>}
DirTexts ==
    {<<KwImport>> \o b : b \in ImportBodies} \cup
    {<<KwExport>> \o b : b \in ExportBodies} \cup
    {join(ls) \o t : ls \in SeqsUpTo(SampleLines, MaxLines), t \in {<<>>, <<NL>>}}

InitDir ==
    /\ scanIn = [marker |-> "&", text |-> <<>>]
    /\ scanOut = NoScan
    /\ family = "graph"
    /\ fs = [f \in Files |-> Unread]
    /\ processed_files = {}
    /\ stack = <<>>
    /\ nparse = 0
    /\ done = [f \in Files |-> NotDone]
    /\ result = Idle
    /\ history = <<>>
    /\ dirIn \in DirTexts
    /\ dirOut = NoParse

ParseDirectives ==
    /\ dirOut = NoParse
    /\ dirOut' = parse_directives_text(dirIn)
    /\ UNCHANGED <<dirIn, scanVars, loadVars>>

NextDir == ParseDirectives

SpecDir == InitDir /\ [][NextDir]_vars

(***************************************************************************)
(* Properties of the scanner                                               *)
(***************************************************************************)
\* the longest prefix of s made of characters of the set class
RECURSIVE Run(_, _)
Run(s, class) ==
    IF s = <<>> \/ s[1] \notin class THEN <<>>
    ELSE <<s[1]>> \o Run(Tail(s), class)

\* the characters of the alphabet a definition name is made of
DefChars == {ch \in Chars : isalnum(ch) \/ ch \in {"_", "-"}}
\* the characters of the alphabet an alias name is made of, less the separator
AliasChars == {ch \in Chars : isalnum(ch) \/ ch = "_"}

Scanned(marker) == scanIn.marker = marker /\ scanOut # NoScan

\* the alias name as written: everything up to the first character that is
\* neither a name character nor the separator
AliasWritten == Run(scanIn.text, AliasChars \cup {"."})

\* C8: scanning an alias whose written name has a second separator, or a
\* separator as its first or last character, ends in a scan error and never
\* returns an alias token.
C8_AliasMisuseIsScanError ==
    (/\ Scanned("*")
     /\ \/ count(AliasWritten, ".") >= 2
        \/ startswith(AliasWritten, ".")
        \/ endswith(AliasWritten, "."))
    => scanOut.err # ""

\* the definition scan meets a separator: the first character after the
\* leading run of definition-name characters is the separator
DefMeetsSeparator ==
    peek(scanIn.text, Len(Run(scanIn.text, DefChars)) + 1) = "."

\* C9: a definition scan that meets a separator before a terminator ends in
\* a scan error, and no definition token the scanner returns contains the
\* separator.
C9_NoSeparatorInDefinition ==
    Scanned("&") =>
        /\ DefMeetsSeparator => scanOut.err # ""
        /\ scanOut.err = "" => count(scanOut.name, ".") = 0

\* a definition with a separator after a well-formed start has been scanned
\* and rejected
C9_Witness ==
    /\ Scanned("&")
    /\ DefMeetsSeparator
    /\ Len(Run(scanIn.text, DefChars)) >= 1
    /\ scanOut.err = "period not allowed in anchor names"


(***************************************************************************)
(* Properties of the loader                                                *)
(***************************************************************************)
ReadFiles == {f \in Files : fs[f] # Unread}

\* the import directives written in a file that has been read
DirectivesOf(f) == _parse_directives(fs[f]).import_directives
TokensOf(f) == _parse_directives(fs[f]).explicit_exports
\* the files a read file imports
TargetsOf(f) == {import_path(f, DirectivesOf(f)[k].path) : k \in 1..Len(DirectivesOf(f))}

\* the files reached from the set S along at most n further import edges
RECURSIVE ReachedWithin(_, _)
ReachedWithin(S, n) ==
    IF n = 0 THEN S
    ELSE ReachedWithin(S \cup UNION {TargetsOf(f) : f \in S \cap ReadFiles}, n - 1)

\* the files reached from f along one import edge or more
ReachedFrom(f) == ReachedWithin(TargetsOf(f), Cardinality(Files))

\* every file the read files import has been read, so the graph below the
\* top-level file is known in full
GraphKnown == \A f \in ReadFiles : TargetsOf(f) \subseteq ReadFiles
Acyclic == \A f \in ReadFiles : f \notin ReachedFrom(f)

\* the files of the active calls, outermost first
StackPaths == {abspath(stack[k].file_path) : k \in 1..Len(stack)}

Finished == result.status \in {"returned", "raised"}
EngineErrors == {"ScannerError", "ParserError", "ComposerError"}

\* the next step is the recursive call for an import directive
AtImport == stack # <<>> /\ Top.i <= Len(Top.import_directives)
NextTarget == abspath(import_path(Top.file_path, Top.import_directives[Top.i].path))

\* the next step runs the engine on the file of the innermost call
AtParse == stack # <<>> /\ Top.i > Len(Top.import_directives)
TopLoaded == get_single_data(Top.content, Top.imported_anchors, nparse + 1)
TopExported == exported_of(TopLoaded.anchors, Top.imported_anchors, Top.explicit_exports)

\* the top-level file imports b only, b imports c only, c imports nothing,
\* and the three are distinct
IsChain3 ==
    /\ result.file_path \in ReadFiles
    /\ \E b, c \in ReadFiles :
        /\ Cardinality({result.file_path, b, c}) = 3
        /\ Len(DirectivesOf(result.file_path)) = 1 /\ TargetsOf(result.file_path) = {b}
        /\ Len(DirectivesOf(b)) = 1 /\ TargetsOf(b) = {c}
        /\ DirectivesOf(c) = <<>>

\* C1: a recursive call on a file that is an ancestor on the active chain
\* makes the top-level call fail with the circular-import error; and a load
\* of a chain of three distinct files returns a result (it fails only if the
\* engine rejects the content of one of the files).
C1_AncestorCycleRaisesChainLoads ==
    [][/\ (AtImport /\ NextTarget \in StackPaths)
            => (result'.status = "raised" /\ result'.error = "CircularImport")
       /\ (Finished' /\ IsChain3' /\ result'.error \notin EngineErrors)
            => (result'.status = "returned")]_vars

\* a load of A, which imports B, which imports A, has raised the
\* circular-import error
C1_Witness ==
    /\ result = Raised("A", "CircularImport")
    /\ {"A", "B"} \subseteq ReadFiles
    /\ TargetsOf("A") = {"B"}
    /\ "A" \in TargetsOf("B")

\* C2: a load of an acyclic import graph never fails with the circular-import
\* error, also when a file is reached along two branches.
C2_AcyclicNeverCircular ==
    (GraphKnown /\ Acyclic) => result.error # "CircularImport"

\* the anchors a returned call found defined in its own file
LocalNames(f) == DOMAIN done[f].anchors \ DOMAIN done[f].imported_anchors

\* C3 (as the specification states it): every anchor defined in a file's own content is in the
\* export table the file's call returns, under its own name and with its
\* own value.
C3_LocalAnchorsExportedWithOwnValue ==
    \A f \in Files : done[f].returned =>
        \A k \in LocalNames(f) :
            k \in DOMAIN done[f].exported /\ done[f].exported[k] = done[f].anchors[k]

\* export token exp names an existing imported anchor whose bare name is k
ReExports(f, exp, k) ==
    /\ find(exp, ".", 1) > 0
    /\ split1(exp).anchor_name = k
    /\ exp \in DOMAIN done[f].anchors

\* C3 (amended): every anchor defined in a file's own content is a key of
\* the export table the file's call returns, bound to its own value unless
\* an export token re-exports an imported anchor under the same bare name.
C3_LocalAnchorsExported ==
    \A f \in Files : done[f].returned =>
        \A k \in LocalNames(f) :
            /\ k \in DOMAIN done[f].exported
            /\ \/ done[f].exported[k] = done[f].anchors[k]
               \/ \E j \in 1..Len(done[f].explicit_exports) :
                     ReExports(f, done[f].explicit_exports[j], k)

\* a file with a local anchor and no export token has returned
C3_Witness ==
    \E f \in Files :
        /\ done[f].returned
        /\ done[f].explicit_exports = <<>>
        /\ X \in LocalNames(f)
        /\ done[f].exported[X] = done[f].anchors[X]

ImportThenExportScenario ==
    /\ result.file_path = "A"
    /\ {"A", "B"} \subseteq ReadFiles
    /\ fs["A"] = <<ImportLine("B", P), PlainLine("2")>>
    /\ fs["B"] = <<DefLine(X, "1"), ExportLine(<<prefixed(P, X)>>)>>

\* C5: in the import-then-export scenario the load of the parent returns
\* the parent's value and an export table that holds the child's anchor.
C5_ParentExportsChildAnchor ==
    (ImportThenExportScenario /\ Finished) =>
        /\ result.status = "returned"
        /\ result.data = <<Construct("2", 0, 0)>>
        /\ X \in DOMAIN result.exported
        /\ result.exported[X] = Construct("1", 0, 0)

\* the values of a sequence or table of objects
ValuesOf(objs) == [k \in DOMAIN objs |-> objs[k].v]

HasNoDirective(f) == \A k \in 1..Len(fs[f]) : IsYaml(fs[f][k])
\* what the engine alone makes of the text of f
BaseLoad(f) == get_single_data(fs[f], EmptyDict, 0)

CallerOfTop == stack[Len(stack) - 1]
PrefixOfTop == CallerOfTop.import_directives[CallerOfTop.i].prefix
SharedKeys ==
    {anchor \in DOMAIN TopExported :
        prefixed(PrefixOfTop, anchor) \in DOMAIN CallerOfTop.imported_anchors}
SameKeyFromTwoEdges ==
    /\ AtParse /\ Len(stack) >= 2
    /\ TopLoaded.err = ""
    /\ SharedKeys # {}

\* C7: when two import edges of a file produce the same prefixed key, the
\* load fails with the anchor-collision error exactly when the two values
\* bound to the key differ.
C7_CollisionIffValuesDiffer ==
    [][SameKeyFromTwoEdges =>
        ((result'.status = "raised" /\ result'.error = "AnchorCollision")
            <=> \E anchor \in SharedKeys :
                    CallerOfTop.imported_anchors[prefixed(PrefixOfTop, anchor)].v
                        # TopExported[anchor].v)]_vars

\* export token exp names no anchor of the table anchors
NamesNoAnchor(exp, anchors) == exp \notin DOMAIN anchors
\* the sequence s without its k-th element
Without(s, k) == SubSeq(s, 1, k - 1) \o SubSeq(s, k + 1, Len(s))

\* C10: an export token that names no anchor of the file's parse is dropped
\* without an error: the call returns, and its export table is the one it
\* would return had the token not been written.
C10_MissingExportDropped ==
    [][(AtParse /\ TopLoaded.err = "") =>
        \A k \in 1..Len(Top.explicit_exports) :
            NamesNoAnchor(Top.explicit_exports[k], TopLoaded.anchors) =>
                /\ done'[Top.file_path].returned
                /\ done'[Top.file_path].exported =
                      exported_of(TopLoaded.anchors, Top.imported_anchors,
                                  Without(Top.explicit_exports, k))]_vars

\* a call with an export token for an anchor that was not imported, next to
\* one for an anchor that was, has returned
C10_Witness ==
    \E f \in Files :
        /\ done[f].returned
        /\ done[f].explicit_exports = <<prefixed(Q, X), prefixed(P, X)>>
        /\ prefixed(Q, X) \notin DOMAIN done[f].anchors
        /\ prefixed(P, X) \in DOMAIN done[f].anchors
        /\ X \notin LocalNames(f)
        /\ DOMAIN done[f].exported = {X}


\* the top-level file imports b, b imports c, c imports the top-level file
IsCycle3 ==
    /\ {"A", "B", "C"} \subseteq ReadFiles
    /\ "B" \in TargetsOf("A") /\ "C" \in TargetsOf("B") /\ "A" \in TargetsOf("C")

\* no call is nested deeper than there are files, so MaxDepth stops no step
DepthWithinFiles == Len(stack) <= Cardinality(Files) /\ Cardinality(Files) < MaxDepth

\* C11: every top-level load terminates: once started it eventually has
\* returned a result or raised an error, whatever the import graph.
C11_LoadTerminates == (result.status = "running") ~> Finished

\* a load of a cycle through three files has ended
C11_Witness ==
    /\ Finished
    /\ IsCycle3
    /\ ~("A" \in TargetsOf("A") \/ "A" \in TargetsOf("B") \/ "B" \in TargetsOf("B"))

\* C12: while a top-level load runs, the cycle-detection set is exactly the
\* set of the paths of the calls that are active.
C12_ProcessedIsActiveCalls ==
    (result.status = "running") => processed_files = StackPaths


\* the names the file at path exported to the call that imported it
ExportedBy(path) == DOMAIN done[abspath(path)].exported

\* the keys the import directives ds give rise to
KeysOf(file_path, ds) ==
    UNION {{prefixed(ds[k].prefix, n) : n \in ExportedBy(import_path(file_path, ds[k].path))} :
              k \in 1..Len(ds)}

\* C13: when the import loop of a call is over, its imported-anchor map has
\* exactly the keys prefix.name for every import directive and every name
\* the imported file exported, each bound to the exported value; and an
\* alias prefix.name in the file's content resolves if and only if a file
\* imported under that prefix exported that name.
C13_PrefixMapping ==
    AtParse =>
        LET ds == Top.import_directives IN
        /\ DOMAIN Top.imported_anchors = KeysOf(Top.file_path, ds)
        /\ \A k \in 1..Len(ds) :
              \A n \in ExportedBy(import_path(Top.file_path, ds[k].path)) :
                  Top.imported_anchors[prefixed(ds[k].prefix, n)]
                      = done[abspath(import_path(Top.file_path, ds[k].path))].exported[n]
        /\ \A j \in 1..Len(Top.content) :
              (Top.content[j].kind = "alias" /\ find(Top.content[j].name, ".", 1) > 0) =>
                  ((TopLoaded.err # "ComposerError")
                      <=> Top.content[j].name \in KeysOf(Top.file_path, ds))

\* a call that imported x under p and uses the alias p.x has returned the
\* imported value in its data
C13_Witness ==
    \E f \in Files :
        /\ done[f].returned
        /\ prefixed(P, X) \in DOMAIN done[f].imported_anchors
        /\ \E j \in 1..Len(fs[f]) : fs[f][j] = AliasLine(prefixed(P, X))
        /\ \E j \in 1..Len(done[f].data) :
              done[f].data[j] = done[f].imported_anchors[prefixed(P, X)]

\* the text is a definition name the scanner accepts in full after '&'
AcceptedAsDefinition ==
    /\ custom_scan_anchor("&", scanIn.text).err = ""
    /\ custom_scan_anchor("&", scanIn.text).name = scanIn.text

\* C14: a name the scanner accepts in full as a definition after '&' is
\* returned, as it is, as an alias token when it is scanned after '*'.
C14_AliasAcceptsDefinitionNames ==
    (Scanned("*") /\ AcceptedAsDefinition) =>
        (scanOut.err = "" /\ scanOut.name = scanIn.text)

\* C15: an alias token the scanner returns has at most one separator in its
\* name, and a separator it has is neither the first nor the last character.
C15_AliasTokenShape ==
    (Scanned("*") /\ scanOut.err = "") =>
        /\ count(scanOut.name, ".") <= 1
        /\ ~startswith(scanOut.name, ".")
        /\ ~endswith(scanOut.name, ".")

\* an alias with one separator inside its name has been scanned and returned
C15_Witness ==
    /\ Scanned("*")
    /\ scanOut.err = ""
    /\ count(scanOut.name, ".") = 1
    /\ Len(scanOut.name) >= 3

\* C17: no key of an export table a call returns contains the separator,
\* and every key of the imported-anchor map of a call, active or returned,
\* contains exactly one, also when export tokens have several separators.
C17_NamespaceShape ==
    /\ \A f \in Files : done[f].returned =>
          /\ \A k \in DOMAIN done[f].exported : count(k, ".") = 0
          /\ \A k \in DOMAIN done[f].imported_anchors : count(k, ".") = 1
    /\ \A d \in 1..Len(stack) :
          \A k \in DOMAIN stack[d].imported_anchors : count(k, ".") = 1

\* a call with imported anchors and an export token of two separators has
\* returned a non-empty export table
C17_Witness ==
    \E f \in Files :
        /\ done[f].returned
        /\ \E j \in 1..Len(done[f].explicit_exports) :
              count(done[f].explicit_exports[j], ".") = 2
        /\ done[f].imported_anchors # EmptyDict
        /\ done[f].exported # EmptyDict

\* the name under which export token exp is exported
BareName(exp) == IF find(exp, ".", 1) > 0 THEN split1(exp).anchor_name ELSE exp
\* the export tokens of f, by position, that name an anchor of the parse and
\* export it under k
EffectiveFor(f, k) ==
    {j \in 1..Len(done[f].explicit_exports) :
        /\ done[f].explicit_exports[j] \in DOMAIN done[f].anchors
        /\ BareName(done[f].explicit_exports[j]) = k}
Latest(S) == CHOOSE j \in S : \A i \in S : i <= j

\* C19: a name of the export table is bound to the anchor of the last
\* export token that exports under it, and to the local anchor when there
\* is no such token: a token p.x for an imported anchor overrides a local x,
\* and of two tokens p.x and q.x the later one is exported.
C19_ExportPrecedence ==
    \A f \in Files : done[f].returned =>
        \A k \in DOMAIN done[f].exported :
            IF EffectiveFor(f, k) = {}
            THEN k \in LocalNames(f) /\ done[f].exported[k] = done[f].anchors[k]
            ELSE done[f].exported[k] =
                    done[f].anchors[done[f].explicit_exports[Latest(EffectiveFor(f, k))]]

\* a call with the tokens p.x and q.x, in this order, for two imported
\* anchors of different values, has returned x bound to the value of q.x
C19_Witness ==
    \E f \in Files :
        /\ done[f].returned
        /\ done[f].explicit_exports = <<prefixed(P, X), prefixed(Q, X)>>
        /\ {prefixed(P, X), prefixed(Q, X)} \subseteq DOMAIN done[f].anchors
        /\ done[f].anchors[prefixed(P, X)].v # done[f].anchors[prefixed(Q, X)].v
        /\ done[f].exported[X] = done[f].anchors[prefixed(Q, X)]

(***************************************************************************)
(* Properties of top-level loads made one after the other                  *)
(***************************************************************************)
\* what the caller of a top-level load sees of it: a return or an exception,
\* and the values returned
Outcome(r) ==
    [status |-> r.status, error |-> r.error, data |-> ValuesOf(r.data),
     exported |-> ValuesOf(r.exported)]

\* C18: a top-level load starts with a set that holds its own file only,
\* whatever the loads before it left; a finished load of a file has the
\* outcome of every earlier load of that file, the first load ever made
\* among them; and a load that follows a load of the same file raises a
\* circular import only if that load did.
C18_LoadsShareNoState ==
    /\ (result.status = "running" /\ Len(stack) = 1 /\ Top.i = 1) =>
          processed_files = {abspath(result.file_path)}
    /\ Finished =>
          \A k \in 1..Len(history) :
              history[k].file_path = result.file_path =>
                  Outcome(history[k]) = Outcome(result)
    /\ (Finished /\ history # <<>>
           /\ history[Len(history)].file_path = result.file_path
           /\ history[Len(history)].error # "CircularImport") =>
          result.error # "CircularImport"

\* a file loaded, then a load of another file that fails on a circular
\* import, then the first file loaded again, with imports, and returned
C18_Witness ==
    /\ Len(history) = 2
    /\ history[1].file_path = result.file_path
    /\ history[2].file_path # result.file_path
    /\ history[2].error = "CircularImport"
    /\ result.status = "returned"
    /\ Cardinality(processed_files) > 1

(***************************************************************************)
(* Properties of _parse_directives                                         *)
(***************************************************************************)
\* the k-th smallest member of a set of positions
Nth(S, k) == CHOOSE c \in S : Cardinality({d \in S : d < c}) = k - 1

\* the lines of a text: what lies between two line ends, and what follows
\* the last line end when something does
LineEnds(text) == {i \in 1..Len(text) : text[i] = NL}
LinesOf(text) ==
    LET ends == LineEnds(text)
        n == Cardinality(ends) + (IF text # <<>> /\ text[Len(text)] # NL THEN 1 ELSE 0)
    IN [k \in 1..n |->
           SubSeq(text,
                  IF k = 1 THEN 1 ELSE Nth(ends, k - 1) + 1,
                  IF k <= Cardinality(ends) THEN Nth(ends, k) - 1 ELSE Len(text))]

\* s without the whitespace around it
Trimmed(s) ==
    LET inner == {i \in 1..Len(s) : s[i] \notin SpaceChars} IN
    IF inner = {} THEN <<>>
    ELSE SubSeq(s, Nth(inner, 1), Nth(inner, Cardinality(inner)))

AllSpace(line, i, j) == i <= j /\ \A k \in i..j : line[k] \in SpaceChars

\* the ways to read a line as `#!import <path> as <identifier>`: the keyword
\* at column 0, whitespace up to i, a path up to j, whitespace up to k, the
\* word as, whitespace up to l and an identifier up to m
ImportReadings(line) ==
    IF line = <<>> \/ line[1] # KwImport THEN {}
    ELSE LET n == Len(line) IN
         UNION {UNION {UNION {UNION {
             {[path |-> Trimmed(SubSeq(line, i + 1, j)), prefix |-> SubSeq(line, l + 1, m)] :
                 m \in {m \in (l + 1)..n :
                           /\ \A c \in (l + 1)..m : line[c] \in WordChars
                           /\ (m = n \/ line[m + 1] \notin WordChars)}} :
             l \in {l \in (k + 3)..n : AllSpace(line, k + 3, l)}} :
             k \in {k \in (j + 1)..n :
                       /\ AllSpace(line, j + 1, k)
                       /\ k + 2 <= n /\ line[k + 1] = "a" /\ line[k + 2] = "s"}} :
             j \in (i + 1)..n} :
             i \in {i \in 2..n : AllSpace(line, 2, i)}}

MatchesImport(line) == ImportReadings(line) # {}

\* a line that reads as `#!export <list>`: the keyword at column 0,
\* whitespace, and a list of at least one character
MatchesExport(line) ==
    /\ line # <<>> /\ line[1] = KwExport
    /\ \E i \in 2..(Len(line) - 1) : AllSpace(line, 2, i)

\* the entries of the list of an export line, each without the whitespace
\* around it: one more than the list has commas
ListedTokens(line) ==
    LET list == Trimmed(SubSeq(line, 2, Len(line)))
        commas == {i \in 1..Len(list) : list[i] = ","}
        n == Cardinality(commas)
    IN [k \in 1..(n + 1) |->
           Trimmed(SubSeq(list,
                          IF k = 1 THEN 1 ELSE Nth(commas, k - 1) + 1,
                          IF k <= n THEN Nth(commas, k) - 1 ELSE Len(list)))]

IsOtherLine(line) == ~MatchesImport(line) /\ ~MatchesExport(line)
KeptLines == SelectSeq(LinesOf(dirIn), IsOtherLine)

\* one import directive per import line and the tokens of every export
\* line, in the order of the lines, and no line read as both
DirectivesAsWritten ==
    LET lines == LinesOf(dirIn)
        imports == SelectSeq(lines, MatchesImport)
        exports == SelectSeq(lines, MatchesExport)
    IN /\ Len(dirOut.import_directives) = Len(imports)
       /\ \A k \in 1..Len(imports) :
              dirOut.import_directives[k] \in ImportReadings(imports[k])
       /\ dirOut.explicit_exports =
              Flatten([k \in 1..Len(exports) |-> ListedTokens(exports[k])])
       /\ \A k \in 1..Len(lines) : ~(MatchesImport(lines[k]) /\ MatchesExport(lines[k]))

\* C16: the lines of the clean text are the lines of the input that are
\* neither an import nor an export directive, unchanged and in order; there
\* is one import directive per import line, in order; the export tokens are
\* the trimmed entries of the lists of the export lines, in order; and no
\* line is both an import and an export.
C16_DirectiveExtraction ==
    dirOut # NoParse =>
        /\ LinesOf(dirOut.content) = KeptLines
        /\ DirectivesAsWritten

\* what holds of the clean text: its lines are the kept lines but for a last
\* kept line that is empty, which the join of the lines loses
DirectivesExtractedButLastEmptyLine ==
    dirOut # NoParse =>
        /\ LinesOf(dirOut.content) =
              (IF KeptLines # <<>> /\ KeptLines[Len(KeptLines)] = <<>>
               THEN SubSeq(KeptLines, 1, Len(KeptLines) - 1) ELSE KeptLines)
        /\ DirectivesAsWritten
====
